---- MODULE Spec2Model ----
(***************************************************************************)
(* Book shelf application: the REST handlers over the Book store           *)
(* (GET/POST /api/books, GET /api/books/tags, DELETE /api/books/{id}),     *)
(* the create form and the collection view that calls them.                *)
(*                                                                         *)
(* Strings are tuples of one-character strings, so that case folding,      *)
(* trimming, splitting and comparison are computed character by character. *)
(***************************************************************************)
EXTENDS Integers, Sequences, FiniteSets, TLC

(***************************************************************************)
(* Bounds                                                                  *)
(***************************************************************************)
\* number of Books the store ever creates (ids 1..MaxBooks)
MaxBooks == 2

(***************************************************************************)
(* Strings                                                                 *)
(***************************************************************************)
\* a JSON field that is absent (undefined / null); not a string of Chars
Missing == <<"<missing>">>

\* UTF-16 code unit of a character
Code(c) ==
    CASE c = " " -> 32
      [] c = "," -> 44
      [] c = "A" -> 65
      [] c = "B" -> 66
      [] c = "a" -> 97
      [] c = "b" -> 98

ToLower(c) ==
    CASE c = "A" -> "a"
      [] c = "B" -> "b"
      [] OTHER -> c

Lower(s) == [i \in 1..Len(s) |-> ToLower(s[i])]

\* p occurs in s starting at position i
OccursAt(s, p, i) ==
    /\ i + Len(p) - 1 <= Len(s)
    /\ \A k \in 1..Len(p) : s[i + k - 1] = p[k]

\* SQL  s LIKE '%p%'
Contains(s, p) == \E i \in 1..(Len(s) + 1) : OccursAt(s, p, i)

\* variant: the match keeps the letter case (mode omitted)
ContainsSensitive(s, p) == Contains(s, p)

\* Prisma  { contains: p, mode: "insensitive" }
ContainsInsensitive(s, p) == Contains(Lower(s), Lower(p))

\* comparison of strings by code units, shorter prefix first
RECURSIVE StrLess(_, _)
StrLess(s, t) ==
    IF t = <<>> THEN FALSE
    ELSE IF s = <<>> THEN TRUE
    ELSE IF Head(s) # Head(t) THEN Code(Head(s)) < Code(Head(t))
    ELSE StrLess(Tail(s), Tail(t))

StrLeq(s, t) == s = t \/ StrLess(s, t)

\* String.prototype.trim
RECURSIVE TrimStart(_)
TrimStart(s) ==
    IF s # <<>> /\ Head(s) = " " THEN TrimStart(Tail(s)) ELSE s

RECURSIVE TrimEnd(_)
TrimEnd(s) ==
    IF s # <<>> /\ s[Len(s)] = " " THEN TrimEnd(SubSeq(s, 1, Len(s) - 1)) ELSE s

Trim(s) == TrimEnd(TrimStart(s))

\* String.prototype.split(","): the segments between commas, empty ones kept
RECURSIVE SplitComma(_)
SplitComma(s) ==
    IF \E i \in 1..Len(s) : s[i] = ","
    THEN LET i == CHOOSE k \in 1..Len(s) :
                      s[k] = "," /\ \A j \in 1..(k - 1) : s[j] # ","
         IN  <<SubSeq(s, 1, i - 1)>> \o SplitComma(SubSeq(s, i + 1, Len(s)))
    ELSE <<s>>

\* variant: empty segments are kept
FilterNonEmptyNone(q) == q

RECURSIVE FilterNonEmpty(_)
FilterNonEmpty(q) ==
    IF q = <<>> THEN <<>>
    ELSE IF Len(Head(q)) > 0 THEN <<Head(q)>> \o FilterNonEmpty(Tail(q))
    ELSE FilterNonEmpty(Tail(q))

\* variant: the segments are not trimmed
ParseTagsNoTrim(input) == FilterNonEmpty(SplitComma(input))

\* formData.tags.split(",").map(trim).filter(length > 0)
ParseTags(input) ==
    LET parts == SplitComma(input)
    IN  FilterNonEmpty([i \in 1..Len(parts) |-> Trim(parts[i])])

\* JavaScript truthiness of an optional string field
Truthy(v) == v # Missing /\ v # <<>>

Range(q) == {q[i] : i \in 1..Len(q)}

(***************************************************************************)
(* State                                                                   *)
(***************************************************************************)
VARIABLES
    store,      \* the Book table: sequence of Books in insertion order
    nextId,     \* next identifier the store assigns
    resp,       \* last HTTP exchange of a client calling the API directly
    route,      \* page the browser shows: "home", "create" or "edit"
    bookId,     \* EditBook: identifier of the Book being edited, 0 if none
    formData,   \* CreateBook, EditBook: the fields as typed
    formLoading,\* CreateBook loading, EditBook saving: a submission is in progress
    formNet,    \* CreateBook, EditBook: the request in flight or its response
    alertMsg,   \* CreateBook, EditBook: text of the last alert() shown
    books,      \* HomeContent: the displayed book list
    loading,    \* HomeContent: the list is being loaded
    search,     \* HomeContent: search text
    selectedTag,\* HomeContent: selected tag, empty for "All tags"
    sort,       \* HomeContent: "asc" or "desc"
    tags,       \* HomeContent: options of the tag selector
    bookToDelete, \* HomeContent: Book shown in the delete dialog
    deleteLoading,\* HomeContent: a confirmed deletion is in progress
    toast,      \* HomeContent: the notification
    showToast,  \* HomeContent: the notification is visible
    timers,     \* HomeContent: pending timers of the toast effect
    fetches,    \* calls of fetchBooks that have not settled
    tagFetches, \* calls of fetchTags that have not settled
    del,        \* the call of confirmDelete in progress
    nextFetch,  \* number of the next fetchBooks call
    shownBy     \* number of the fetchBooks call whose response set books

apiVars  == <<store, nextId, resp>>
formVars == <<route, bookId, formData, formLoading, formNet, alertMsg>>
viewState == <<books, loading, search, selectedTag, sort, tags, bookToDelete,
               deleteLoading, toast, showToast, timers>>
viewNet  == <<fetches, tagFetches, del, nextFetch, shownBy>>
viewVars == <<viewState, viewNet>>

NoResp == [op |-> "none", status |-> 0]

(***************************************************************************)
(* Query Service: GET /api/books                                           *)
(***************************************************************************)
\* variant: the tag filter matches a tag that contains the text
WhereTagSubstring(b, q, tag) ==
    /\ (Truthy(q) => ContainsInsensitive(b.title, q))
    /\ (Truthy(tag) => \E i \in 1..Len(b.tags) : Contains(b.tags[i], tag))

\* the where clause built from the query parameters
Where(b, q, tag) ==
    /\ (Truthy(q) => ContainsInsensitive(b.title, q))
    /\ (Truthy(tag) => \E i \in 1..Len(b.tags) : b.tags[i] = tag)

\* orderBy: { title: dir === "desc" ? "desc" : "asc" }
InOrder(t1, t2, dir) ==
    IF dir = "desc" THEN StrLeq(t2, t1) ELSE StrLeq(t1, t2)

\* prisma.book.findMany({where, orderBy}): every row that satisfies the where
\* clause, ordered by title; rows with equal titles come in an order the
\* query does not determine
FindMany(rows, q, tag, dir) ==
    LET sel == {i \in 1..Len(rows) : Where(rows[i], q, tag)}
        n   == Cardinality(sel)
    IN  { [k \in 1..n |-> rows[f[k]]] :
            f \in { g \in [1..n -> sel] :
                      /\ \A j, k \in 1..n : j # k => g[j] # g[k]
                      /\ \A j, k \in 1..n :
                           j < k => InOrder(rows[g[j]].title, rows[g[k]].title, dir) } }

\* GET handler of /api/books: the set of responses it can give
GetBooksResponses(rows, q, tag, dir, fail) ==
    IF fail
    THEN { [op |-> "GET /api/books", status |-> 500,
            search |-> q, tag |-> tag, sort |-> dir,
            error |-> "Failed to fetch books", content |-> rows, threw |-> TRUE] }
    ELSE { [op |-> "GET /api/books", status |-> 200,
            search |-> q, tag |-> tag, sort |-> dir,
            books |-> body, content |-> rows, threw |-> FALSE] :
              body \in FindMany(rows, q, tag, IF dir = "" THEN "asc" ELSE dir) }

(***************************************************************************)
(* POST /api/books                                                         *)
(***************************************************************************)
MissingTags == <<Missing>>

\* variant: only the title is checked
PostRejectsTitleOnly(body) == ~Truthy(body.title)

\* if (!title || !author) -> 400
PostRejects(body) == ~Truthy(body.title) \/ ~Truthy(body.author)

\* data: { title, author, tags: tags || [], coverImage: coverImage || null }
NewBook(body, id) ==
    [id         |-> id,
     title      |-> body.title,
     author     |-> body.author,
     tags       |-> IF body.tags = MissingTags THEN <<>> ELSE body.tags,
     coverImage |-> IF Truthy(body.coverImage) THEN body.coverImage ELSE Missing]

PostStatus(body, fail) ==
    IF PostRejects(body) THEN 400
    ELSE IF fail THEN 500
    ELSE 201

\* the Book table after the POST handler has run
StoreAfterPost(rows, id, body, fail) ==
    IF PostStatus(body, fail) = 201 THEN Append(rows, NewBook(body, id)) ELSE rows

PostResponse(rows, id, body, fail) ==
    LET st == PostStatus(body, fail)
    IN  IF st = 201
        THEN [op |-> "POST /api/books", status |-> 201, body |-> body,
              book |-> NewBook(body, id), threw |-> FALSE]
        ELSE [op |-> "POST /api/books", status |-> st, body |-> body,
              error |-> IF st = 400 THEN "Title and author are required"
                        ELSE "Failed to create book",
              threw |-> (st = 500)]

(***************************************************************************)
(* Tag Index: GET /api/books/tags                                          *)
(***************************************************************************)
\* variant: the last Book is left out
RECURSIVE FlatMapTagsButLast(_)
FlatMapTagsButLast(rows) ==
    IF Len(rows) <= 1 THEN <<>>
    ELSE Head(rows).tags \o FlatMapTagsButLast(Tail(rows))

\* books.flatMap(book => book.tags)
RECURSIVE FlatMapTags(_)
FlatMapTags(rows) ==
    IF rows = <<>> THEN <<>> ELSE Head(rows).tags \o FlatMapTags(Tail(rows))

\* variant: duplicates are kept
DedupNone(q) == q

\* [...new Set(q)]: first occurrences, in order
RECURSIVE Dedup(_)
Dedup(q) ==
    IF q = <<>> THEN <<>>
    ELSE LET front == Dedup(SubSeq(q, 1, Len(q) - 1))
             last  == q[Len(q)]
         IN  IF last \in Range(front) THEN front ELSE Append(front, last)

\* insert x into the sorted sequence q, after the elements not greater than x
RECURSIVE InsertSorted(_, _)
InsertSorted(q, x) ==
    IF q = <<>> THEN <<x>>
    ELSE IF StrLess(x, Head(q)) THEN <<x>> \o q
    ELSE <<Head(q)>> \o InsertSorted(Tail(q), x)

\* Array.prototype.sort() with the default comparison (code unit order)
RECURSIVE SortStrings(_)
SortStrings(q) ==
    IF q = <<>> THEN <<>>
    ELSE InsertSorted(SortStrings(SubSeq(q, 1, Len(q) - 1)), q[Len(q)])

UniqueTags(rows) == SortStrings(Dedup(FlatMapTags(rows)))

\* variant: a failure of the store is answered with an empty list
GetTagsResponseSwallow(rows, fail) ==
    IF fail
    THEN [op |-> "GET /api/books/tags", status |-> 200,
          tags |-> <<>>, content |-> rows, threw |-> TRUE]
    ELSE [op |-> "GET /api/books/tags", status |-> 200,
          tags |-> UniqueTags(rows), content |-> rows, threw |-> FALSE]

GetTagsResponse(rows, fail) ==
    IF fail
    THEN [op |-> "GET /api/books/tags", status |-> 500,
          error |-> "Failed to fetch tags", content |-> rows, threw |-> TRUE]
    ELSE [op |-> "GET /api/books/tags", status |-> 200,
          tags |-> UniqueTags(rows), content |-> rows, threw |-> FALSE]

(***************************************************************************)
(* DELETE /api/books/{id}                                                  *)
(***************************************************************************)
HasId(rows, id) == \E i \in 1..Len(rows) : rows[i].id = id

RECURSIVE RemoveId(_, _)
RemoveId(rows, id) ==
    IF rows = <<>> THEN <<>>
    ELSE IF Head(rows).id = id THEN RemoveId(Tail(rows), id)
    ELSE <<Head(rows)>> \o RemoveId(Tail(rows), id)

DeleteStatus(rows, id, fail) ==
    IF fail \/ ~HasId(rows, id) THEN 500 ELSE 200

StoreAfterDelete(rows, id, fail) ==
    IF DeleteStatus(rows, id, fail) = 200 THEN RemoveId(rows, id) ELSE rows

(***************************************************************************)
(* Requests of a client that calls the API directly                        *)
(***************************************************************************)
sa  == <<"a">>
sA  == <<"A">>
sb  == <<"b">>
sB  == <<"B">>
sab == <<"a", "b">>
sAb == <<"A", "b">>
saB == <<"a", "B">>
sSp == <<" ">>

Searches  == {Missing, <<>>, sa, sB, saB}
TagParams == {Missing, <<>>, sa, sB}
Sorts     == {"", "asc", "desc"}

Bodies ==
    { [title |-> sAb,     author |-> sa,      tags |-> <<sa, sb, sb>>, coverImage |-> Missing],
      [title |-> sAb,     author |-> sb,      tags |-> <<sab>>,        coverImage |-> sa],
      [title |-> sb,      author |-> sa,      tags |-> <<sB, sa>>,     coverImage |-> <<>>],
      [title |-> sSp,     author |-> sa,      tags |-> MissingTags,    coverImage |-> Missing],
      [title |-> <<>>,    author |-> sa,      tags |-> <<sa>>,         coverImage |-> Missing],
      [title |-> sa,      author |-> <<>>,    tags |-> <<sb>>,         coverImage |-> Missing],
      [title |-> Missing, author |-> sa,      tags |-> <<sa>>,         coverImage |-> Missing],
      [title |-> sb,      author |-> Missing, tags |-> MissingTags,    coverImage |-> Missing] }

ApiGetBooks(q, tag, dir, fail) ==
    /\ resp' \in GetBooksResponses(store, q, tag, dir, fail)
    /\ UNCHANGED <<store, nextId, formVars, viewVars>>

ApiPost(body, fail) ==
    /\ PostStatus(body, fail) = 201 => nextId <= MaxBooks
    /\ store' = StoreAfterPost(store, nextId, body, fail)
    /\ nextId' = IF PostStatus(body, fail) = 201 THEN nextId + 1 ELSE nextId
    /\ resp' = PostResponse(store, nextId, body, fail)
    /\ UNCHANGED <<formVars, viewVars>>

ApiGetTags(fail) ==
    /\ resp' = GetTagsResponse(store, fail)
    /\ UNCHANGED <<store, nextId, formVars, viewVars>>

ApiDelete(id, fail) ==
    /\ store' = StoreAfterDelete(store, id, fail)
    /\ resp' = [op |-> "DELETE /api/books/{id}", id |-> id,
                status |-> DeleteStatus(store, id, fail)]
    /\ UNCHANGED <<nextId, formVars, viewVars>>

(***************************************************************************)
(* PUT /api/books/{id}                                                     *)
(***************************************************************************)
\* answers with an error string, and the answer without one
PutErrors == {"Book not found", ""}

PutStatus(rows, id, body, fail) ==
    IF PostRejects(body) THEN 400
    ELSE IF fail \/ ~HasId(rows, id) THEN 404
    ELSE 200

\* title, author, tags and coverImage of the Book are replaced
ReplaceId(rows, id, body) ==
    [i \in 1..Len(rows) |-> IF rows[i].id = id THEN NewBook(body, id) ELSE rows[i]]

StoreAfterPut(rows, id, body, fail) ==
    IF PutStatus(rows, id, body, fail) = 200 THEN ReplaceId(rows, id, body) ELSE rows

PutResponse(rows, id, body, fail, msg) ==
    LET st == PutStatus(rows, id, body, fail)
    IN  IF st = 200
        THEN [op |-> "PUT /api/books/{id}", status |-> 200, book |-> NewBook(body, id)]
        ELSE IF msg = ""
        THEN [op |-> "PUT /api/books/{id}", status |-> st]
        ELSE [op |-> "PUT /api/books/{id}", status |-> st, error |-> msg]

(***************************************************************************)
(* Book Form: CreateBook and EditBook                                      *)
(***************************************************************************)
EmptyForm == [title |-> <<>>, author |-> <<>>, tags |-> <<>>, coverImage |-> <<>>]

NoNet == [stage |-> "none"]

NoToast == [message |-> "", variant |-> "none"]

\* what the user types into the form
FormInputs ==
    { [title |-> sAb,  author |-> sa, tags |-> <<"a", ",", " ", "b", ",", " ", "b">>,
       coverImage |-> <<>>],
      [title |-> sSp,  author |-> sb, tags |-> <<" ", ",">>,
       coverImage |-> <<>>],
      [title |-> <<>>, author |-> sa, tags |-> <<"B">>,
       coverImage |-> <<>>],
      [title |-> sb,   author |-> sa,
       tags |-> <<" ", "B", " ", "b", ",", ",", "a", " ", ",">>,
       coverImage |-> sa] }

\* the values of ?toast= the collection view is opened with
\* variant: the effect has no cleanup, the timer of the toast replaced stays
StartTimerNoCleanup(T) == {"current"} \cup (IF T = {} THEN {} ELSE {"stale"})

\* the toast effect runs for a new toast: its cleanup clears the pending
\* timer, then setTimeout starts the timer of the new toast; a pending timer
\* is "current" when it was started for the toast now set
StartTimer(T) == {"current"}

ToastParams == {"", "book-created", "book-updated", "book-deleted", "book-error", "other"}

\* toastCopy[toastParam]
ToastCopy(p) ==
    CASE p = "book-created" -> [message |-> "Book added successfully!", variant |-> "success"]
      [] p = "book-updated" -> [message |-> "Book updated successfully!", variant |-> "success"]
      [] p = "book-deleted" -> [message |-> "Book removed from your shelf.", variant |-> "success"]
      [] p = "book-error"   -> [message |-> "Something went wrong. Please try again.",
                                variant |-> "error"]
      [] OTHER              -> NoToast

\* HomeContent mounts at the URL /?toast=p: the toastParam effect shows the
\* preset of p, if there is one, and replaces the URL by /
MountHome(p) ==
    /\ toast' = ToastCopy(p)
    /\ showToast' = (ToastCopy(p) # NoToast)
    /\ timers' = IF ToastCopy(p) # NoToast THEN StartTimer({}) ELSE {}

\* the browser opens the collection view at /?toast=p
OpenHome(p) ==
    /\ route = "home"
    /\ MountHome(p)
    /\ UNCHANGED <<apiVars, formVars, books, loading, search, selectedTag, sort, tags,
                   bookToDelete, deleteLoading, viewNet>>

\* <Link href="/books/create">: the form is mounted with its initial state
OpenCreate ==
    /\ route = "home"
    /\ route' = "create"
    /\ formData' = EmptyForm
    /\ formLoading' = FALSE
    /\ toast' = NoToast
    /\ showToast' = FALSE
    /\ timers' = {}
    /\ UNCHANGED <<apiVars, bookId, formNet, alertMsg, books, loading, search,
                   selectedTag, sort, tags, bookToDelete, deleteLoading, viewNet>>

\* Array.prototype.join(", ")
RECURSIVE JoinTags(_)
JoinTags(q) ==
    IF q = <<>> THEN <<>>
    ELSE IF Len(q) = 1 THEN q[1]
    ELSE q[1] \o <<",", " ">> \o JoinTags(Tail(q))

\* the fields fetchBook fills in from the Book it loaded
FormOfBook(b) ==
    [title      |-> b.title,
     author     |-> b.author,
     tags       |-> JoinTags(b.tags),
     coverImage |-> IF Truthy(b.coverImage) THEN b.coverImage ELSE <<>>]

\* /books/{id}/edit: the form is mounted and fetchBook loads the Book; when
\* the Book cannot be loaded the browser is sent back to the collection view
OpenEdit(id) ==
    /\ route = "home"
    /\ toast' = NoToast
    /\ showToast' = FALSE
    /\ timers' = {}
    /\ IF HasId(store, id)
       THEN /\ route' = "edit"
            /\ bookId' = id
            /\ formData' = FormOfBook(CHOOSE b \in Range(store) : b.id = id)
            /\ formLoading' = FALSE
            /\ UNCHANGED alertMsg
       ELSE /\ alertMsg' = "Book not found"
            /\ UNCHANGED <<route, bookId, formData, formLoading>>
    /\ UNCHANGED <<apiVars, formNet, books, loading, search, selectedTag, sort, tags,
                   bookToDelete, deleteLoading, viewNet>>

\* onChange of the inputs
FormEdit(fd) ==
    /\ route \in {"create", "edit"}
    /\ formData' = fd
    /\ UNCHANGED <<apiVars, viewVars, route, bookId, formLoading, formNet, alertMsg>>

\* the browser's check of the inputs marked required
RequiredFilled(fd) == fd.title # <<>> /\ fd.author # <<>>

\* JSON body built by handleSubmit
SubmitBody(fd) ==
    [title      |-> fd.title,
     author     |-> fd.author,
     tags       |-> ParseTags(fd.tags),
     coverImage |-> IF Truthy(fd.coverImage) THEN fd.coverImage ELSE Missing]

\* handleSubmit up to the fetch
FormSubmit ==
    /\ route \in {"create", "edit"}
    /\ ~formLoading
    /\ RequiredFilled(formData)
    /\ formLoading' = TRUE
    /\ formNet' = [stage  |-> "request",
                   method |-> IF route = "create" THEN "POST" ELSE "PUT",
                   id     |-> bookId,
                   body   |-> SubmitBody(formData)]
    /\ UNCHANGED <<apiVars, viewVars, route, bookId, formData, alertMsg>>

\* the POST handler serves the form's request
ServeFormPost(fail) ==
    /\ formNet.stage = "request"
    /\ formNet.method = "POST"
    /\ PostStatus(formNet.body, fail) = 201 => nextId <= MaxBooks
    /\ store' = StoreAfterPost(store, nextId, formNet.body, fail)
    /\ nextId' = IF PostStatus(formNet.body, fail) = 201 THEN nextId + 1 ELSE nextId
    /\ formNet' = [stage |-> "response",
                   reply |-> PostResponse(store, nextId, formNet.body, fail)]
    /\ UNCHANGED <<resp, viewVars, route, bookId, formData, formLoading, alertMsg>>

\* the PUT handler serves the form's request
ServeFormPut(fail, msg) ==
    /\ formNet.stage = "request"
    /\ formNet.method = "PUT"
    /\ store' = StoreAfterPut(store, formNet.id, formNet.body, fail)
    /\ formNet' = [stage |-> "response",
                   reply |-> PutResponse(store, formNet.id, formNet.body, fail, msg)]
    /\ UNCHANGED <<nextId, resp, viewVars, route, bookId, formData, formLoading, alertMsg>>

\* fetch rejects: the request never reaches the handler
FormNetworkError ==
    /\ formNet.stage = "request"
    /\ formNet' = [stage |-> "failed"]
    /\ UNCHANGED <<apiVars, viewVars, route, bookId, formData, formLoading, alertMsg>>

\* response.ok
Ok(status) == status >= 200 /\ status <= 299

\* error.error || fallback
ErrorOr(reply, fallback) ==
    IF "error" \in DOMAIN reply /\ reply.error # "" THEN reply.error ELSE fallback

Fallback(r) == IF r = "create" THEN "Failed to create book" ELSE "Failed to update book"

\* variant: a failed submission resets the fields
FormResponseClears ==
    /\ formNet.stage \in {"response", "failed"}
    /\ formNet' = NoNet
    /\ formLoading' = FALSE
    /\ IF formNet.stage = "response" /\ Ok(formNet.reply.status)
       THEN /\ route' = "home"
            /\ MountHome("")
            /\ UNCHANGED <<alertMsg, formData>>
       ELSE /\ alertMsg' = IF formNet.stage = "response"
                           THEN ErrorOr(formNet.reply, Fallback(route))
                           ELSE Fallback(route)
            /\ formData' = EmptyForm
            /\ UNCHANGED <<route, toast, showToast, timers>>
    /\ UNCHANGED <<apiVars, bookId, books, loading, search, selectedTag, sort,
                   tags, bookToDelete, deleteLoading, viewNet>>

\* handleSubmit after the fetch settles; router.push("/") mounts the
\* collection view at the URL /
FormResponse ==
    /\ formNet.stage \in {"response", "failed"}
    /\ formNet' = NoNet
    /\ formLoading' = FALSE
    /\ IF formNet.stage = "response" /\ Ok(formNet.reply.status)
       THEN /\ route' = "home"
            /\ MountHome("")
            /\ UNCHANGED alertMsg
       ELSE /\ alertMsg' = IF formNet.stage = "response"
                           THEN ErrorOr(formNet.reply, Fallback(route))
                           ELSE Fallback(route)
            /\ UNCHANGED <<route, toast, showToast, timers>>
    /\ UNCHANGED <<apiVars, bookId, formData, books, loading, search, selectedTag, sort,
                   tags, bookToDelete, deleteLoading, viewNet>>

(***************************************************************************)
(* Book Collection View: HomeContent                                       *)
(***************************************************************************)
\* number of fetchBooks calls the view makes
MaxFetches == 2

NoBook  == [id |-> 0]
NoReply == [status |-> 0]
NoDel   == [pc |-> "idle"]

\* URLSearchParams: a parameter is appended only when its value is non-empty
QueryParam(v) == IF v = <<>> THEN Missing ELSE v

\* the call of fetchBooks up to its fetch, for the given closure values
NewFetch(n, by, s, t, o) ==
    [id |-> n, by |-> by, search |-> s, tag |-> t, sort |-> o,
     stage |-> "request", reply |-> NoReply]

\* the effect on [fetchBooks]: a change of search, selectedTag or sort gives a
\* new fetchBooks, which the effect calls
SetSearch(v) ==
    /\ nextFetch <= MaxFetches
    /\ v # search
    /\ search' = v
    /\ loading' = TRUE
    /\ fetches' = fetches \cup {NewFetch(nextFetch, "effect", v, selectedTag, sort)}
    /\ nextFetch' = nextFetch + 1
    /\ UNCHANGED <<apiVars, formVars, books, selectedTag, sort, tags, bookToDelete,
                   deleteLoading, toast, showToast, timers, tagFetches, del, shownBy>>

SetSelectedTag(v) ==
    /\ nextFetch <= MaxFetches
    /\ v \in {<<>>} \cup Range(tags)
    /\ v # selectedTag
    /\ selectedTag' = v
    /\ loading' = TRUE
    /\ fetches' = fetches \cup {NewFetch(nextFetch, "effect", search, v, sort)}
    /\ nextFetch' = nextFetch + 1
    /\ UNCHANGED <<apiVars, formVars, books, search, sort, tags, bookToDelete,
                   deleteLoading, toast, showToast, timers, tagFetches, del, shownBy>>

SetSort(v) ==
    /\ nextFetch <= MaxFetches
    /\ v # sort
    /\ sort' = v
    /\ loading' = TRUE
    /\ fetches' = fetches \cup {NewFetch(nextFetch, "effect", search, selectedTag, v)}
    /\ nextFetch' = nextFetch + 1
    /\ UNCHANGED <<apiVars, formVars, books, search, selectedTag, tags, bookToDelete,
                   deleteLoading, toast, showToast, timers, tagFetches, del, shownBy>>

\* what the client reads of a response: status and JSON body
BooksReply(r) ==
    IF r.status = 200 THEN [status |-> 200, books |-> r.books]
    ELSE [status |-> r.status, error |-> r.error]

\* the GET handler serves a request of the view
ServeBooks(f, fail) ==
    /\ f \in fetches
    /\ f.stage = "request"
    /\ \E r \in GetBooksResponses(store, QueryParam(f.search), QueryParam(f.tag),
                                  f.sort, fail) :
          fetches' = (fetches \ {f}) \cup
                        {[f EXCEPT !.stage = "response", !.reply = BooksReply(r)]}
    /\ UNCHANGED <<apiVars, formVars, viewState, tagFetches, del, nextFetch, shownBy>>

\* fetch rejects
BooksNetworkError(f) ==
    /\ f \in fetches
    /\ f.stage = "request"
    /\ fetches' = (fetches \ {f}) \cup {[f EXCEPT !.stage = "failed"]}
    /\ UNCHANGED <<apiVars, formVars, viewState, tagFetches, del, nextFetch, shownBy>>

BooksOk(f) == f.stage = "response" /\ f.reply.status = 200

\* the call of fetchTags up to its fetch
NewTagFetch(by) == [by |-> by, stage |-> "request", reply |-> NoReply]

\* variant: a response is dropped unless it answers the latest call
BooksSettleLatestOnly(f) ==
    /\ f \in fetches
    /\ f.stage \in {"response", "failed"}
    /\ fetches' = fetches \ {f}
    /\ IF BooksOk(f)
       THEN /\ books' = IF f.id = nextFetch - 1 THEN f.reply.books ELSE books
            /\ shownBy' = IF f.id = nextFetch - 1 THEN f.id ELSE shownBy
            /\ UNCHANGED <<toast, showToast, timers>>
       ELSE /\ toast' = [message |-> "Unable to load books.", variant |-> "error"]
            /\ showToast' = TRUE
            /\ timers' = StartTimer(timers)
            /\ UNCHANGED <<books, shownBy>>
    /\ loading' = FALSE
    /\ IF f.by = "delete"
       THEN /\ tagFetches' = tagFetches \cup {NewTagFetch("delete")}
            /\ del' = [pc |-> "tags"]
       ELSE UNCHANGED <<tagFetches, del>>
    /\ UNCHANGED <<apiVars, formVars, search, selectedTag, sort, tags, bookToDelete,
                   deleteLoading, nextFetch>>

\* variant: loading is reset in the try block, not in finally
BooksSettleKeepsLoading(f) ==
    /\ f \in fetches
    /\ f.stage \in {"response", "failed"}
    /\ fetches' = fetches \ {f}
    /\ IF BooksOk(f)
       THEN /\ books' = f.reply.books
            /\ shownBy' = f.id
            /\ loading' = FALSE
            /\ UNCHANGED <<toast, showToast, timers>>
       ELSE /\ toast' = [message |-> "Unable to load books.", variant |-> "error"]
            /\ showToast' = TRUE
            /\ timers' = StartTimer(timers)
            /\ UNCHANGED <<books, shownBy, loading>>
    /\ IF f.by = "delete"
       THEN /\ tagFetches' = tagFetches \cup {NewTagFetch("delete")}
            /\ del' = [pc |-> "tags"]
       ELSE UNCHANGED <<tagFetches, del>>
    /\ UNCHANGED <<apiVars, formVars, search, selectedTag, sort, tags, bookToDelete,
                   deleteLoading, nextFetch>>

\* fetchBooks after its fetch settles; when confirmDelete awaited it,
\* confirmDelete goes on to call fetchTags
\* variant: a failed call is made again
BooksSettleRetries(f) ==
    /\ f \in fetches
    /\ f.stage \in {"response", "failed"}
    /\ IF BooksOk(f)
       THEN /\ books' = f.reply.books
            /\ shownBy' = f.id
            /\ fetches' = fetches \ {f}
            /\ UNCHANGED <<toast, showToast, timers, nextFetch>>
       ELSE /\ toast' = [message |-> "Unable to load books.", variant |-> "error"]
            /\ showToast' = TRUE
            /\ timers' = StartTimer(timers)
            /\ fetches' = (fetches \ {f}) \cup
                              {NewFetch(nextFetch, "effect", search, selectedTag, sort)}
            /\ nextFetch' = nextFetch + 1
            /\ UNCHANGED <<books, shownBy>>
    /\ loading' = FALSE
    /\ IF f.by = "delete"
       THEN /\ tagFetches' = tagFetches \cup {NewTagFetch("delete")}
            /\ del' = [pc |-> "tags"]
       ELSE UNCHANGED <<tagFetches, del>>
    /\ UNCHANGED <<apiVars, formVars, search, selectedTag, sort, tags, bookToDelete,
                   deleteLoading>>

BooksSettle(f) ==
    /\ f \in fetches
    /\ f.stage \in {"response", "failed"}
    /\ fetches' = fetches \ {f}
    /\ IF BooksOk(f)
       THEN /\ books' = f.reply.books
            /\ shownBy' = f.id
            /\ UNCHANGED <<toast, showToast, timers>>
       ELSE /\ toast' = [message |-> "Unable to load books.", variant |-> "error"]
            /\ showToast' = TRUE
            /\ timers' = StartTimer(timers)
            /\ UNCHANGED <<books, shownBy>>
    /\ loading' = FALSE
    /\ IF f.by = "delete"
       THEN /\ tagFetches' = tagFetches \cup {NewTagFetch("delete")}
            /\ del' = [pc |-> "tags"]
       ELSE UNCHANGED <<tagFetches, del>>
    /\ UNCHANGED <<apiVars, formVars, search, selectedTag, sort, tags, bookToDelete,
                   deleteLoading, nextFetch>>

ServeTags(t, fail) ==
    /\ t \in tagFetches
    /\ t.stage = "request"
    /\ LET r == GetTagsResponse(store, fail)
       IN  tagFetches' = (tagFetches \ {t}) \cup
              {[t EXCEPT !.stage = "response",
                         !.reply = IF r.status = 200
                                   THEN [status |-> 200, tags |-> r.tags]
                                   ELSE [status |-> r.status, error |-> r.error]]}
    /\ UNCHANGED <<apiVars, formVars, viewState, fetches, del, nextFetch, shownBy>>

TagsNetworkError(t) ==
    /\ t \in tagFetches
    /\ t.stage = "request"
    /\ tagFetches' = (tagFetches \ {t}) \cup {[t EXCEPT !.stage = "failed"]}
    /\ UNCHANGED <<apiVars, formVars, viewState, fetches, del, nextFetch, shownBy>>

\* fetchTags after its fetch settles; when confirmDelete awaited it,
\* confirmDelete reaches its finally block
TagsSettle(t) ==
    /\ t \in tagFetches
    /\ t.stage \in {"response", "failed"}
    /\ tagFetches' = tagFetches \ {t}
    /\ IF t.stage = "response" /\ t.reply.status = 200
       THEN /\ tags' = t.reply.tags
            /\ UNCHANGED <<toast, showToast, timers>>
       ELSE /\ toast' = [message |-> "Unable to load tags.", variant |-> "error"]
            /\ showToast' = TRUE
            /\ timers' = StartTimer(timers)
            /\ UNCHANGED tags
    /\ IF t.by = "delete"
       THEN deleteLoading' = FALSE /\ del' = NoDel
       ELSE UNCHANGED <<deleteLoading, del>>
    /\ UNCHANGED <<apiVars, formVars, books, loading, search, selectedTag, sort,
                   bookToDelete, fetches, nextFetch, shownBy>>

\* variant: the Delete button of a card sends the DELETE at once
SelectDeleteNoConfirm(b) ==
    /\ ~loading
    /\ b \in Range(books)
    /\ bookToDelete' = b
    /\ deleteLoading' = TRUE
    /\ del' = [pc |-> "request", id |-> b.id,
               search |-> search, tag |-> selectedTag, sort |-> sort]
    /\ UNCHANGED <<apiVars, formVars, books, loading, search, selectedTag, sort, tags,
                   toast, showToast, timers, fetches, tagFetches, nextFetch, shownBy>>

\* the Delete button of a card; the cards are rendered when loading is false
SelectDelete(b) ==
    /\ ~loading
    /\ b \in Range(books)
    /\ bookToDelete' = b
    /\ UNCHANGED <<apiVars, formVars, books, loading, search, selectedTag, sort, tags,
                   deleteLoading, toast, showToast, timers, viewNet>>

\* onCancel of the dialog
CancelDelete ==
    /\ bookToDelete # NoBook
    /\ bookToDelete' = NoBook
    /\ UNCHANGED <<apiVars, formVars, books, loading, search, selectedTag, sort, tags,
                   deleteLoading, toast, showToast, timers, viewNet>>

\* variant: the confirm button is not disabled while deleteLoading
ConfirmDeleteNoGuard ==
    /\ bookToDelete # NoBook
    /\ deleteLoading' = TRUE
    /\ del' = [pc |-> "request", id |-> bookToDelete.id,
               search |-> search, tag |-> selectedTag, sort |-> sort]
    /\ UNCHANGED <<apiVars, formVars, books, loading, search, selectedTag, sort, tags,
                   bookToDelete, toast, showToast, timers, fetches, tagFetches, nextFetch, shownBy>>

\* confirmDelete up to its fetch; the button is disabled while deleteLoading
ConfirmDelete ==
    /\ bookToDelete # NoBook
    /\ ~deleteLoading
    /\ deleteLoading' = TRUE
    /\ del' = [pc |-> "request", id |-> bookToDelete.id,
               search |-> search, tag |-> selectedTag, sort |-> sort]
    /\ UNCHANGED <<apiVars, formVars, books, loading, search, selectedTag, sort, tags,
                   bookToDelete, toast, showToast, timers, fetches, tagFetches, nextFetch, shownBy>>

\* the DELETE handler serves the request of the view
ServeDelete(fail) ==
    /\ del.pc = "request"
    /\ store' = StoreAfterDelete(store, del.id, fail)
    /\ del' = [del EXCEPT !.pc = IF DeleteStatus(store, del.id, fail) = 200
                                 THEN "ok" ELSE "error"]
    /\ UNCHANGED <<nextId, resp, formVars, viewState, fetches, tagFetches, nextFetch, shownBy>>

DeleteNetworkError ==
    /\ del.pc = "request"
    /\ del' = [del EXCEPT !.pc = "failed"]
    /\ UNCHANGED <<apiVars, formVars, viewState, fetches, tagFetches, nextFetch, shownBy>>

\* variant: the list is refetched after a failed DELETE too
DeleteSettleRefetchAlways ==
    /\ del.pc \in {"ok", "error", "failed"}
    /\ nextFetch <= MaxFetches
    /\ IF del.pc = "ok"
       THEN /\ toast' = [message |-> "Book removed from your shelf.", variant |-> "success"]
            /\ bookToDelete' = NoBook
       ELSE /\ toast' = [message |-> "Failed to delete book.", variant |-> "error"]
            /\ UNCHANGED bookToDelete
    /\ showToast' = TRUE
    /\ timers' = StartTimer(timers)
    /\ loading' = TRUE
    /\ fetches' = fetches \cup
          {NewFetch(nextFetch, "delete", del.search, del.tag, del.sort)}
    /\ nextFetch' = nextFetch + 1
    /\ del' = [pc |-> "books"]
    /\ UNCHANGED deleteLoading
    /\ UNCHANGED <<apiVars, formVars, books, search, selectedTag, sort, tags, tagFetches,
                   shownBy>>

\* variant: the dialog is closed in the finally block
DeleteSettleClosesAlways ==
    /\ del.pc \in {"ok", "error", "failed"}
    /\ bookToDelete' = NoBook
    /\ IF del.pc = "ok"
       THEN /\ nextFetch <= MaxFetches
            /\ toast' = [message |-> "Book removed from your shelf.", variant |-> "success"]
            /\ showToast' = TRUE
            /\ timers' = StartTimer(timers)
            /\ loading' = TRUE
            /\ fetches' = fetches \cup
                  {NewFetch(nextFetch, "delete", del.search, del.tag, del.sort)}
            /\ nextFetch' = nextFetch + 1
            /\ del' = [pc |-> "books"]
            /\ UNCHANGED deleteLoading
       ELSE /\ toast' = [message |-> "Failed to delete book.", variant |-> "error"]
            /\ showToast' = TRUE
            /\ timers' = StartTimer(timers)
            /\ deleteLoading' = FALSE
            /\ del' = NoDel
            /\ UNCHANGED <<loading, fetches, nextFetch>>
    /\ UNCHANGED <<apiVars, formVars, books, search, selectedTag, sort, tags, tagFetches,
                   shownBy>>

\* confirmDelete after the DELETE settles: on success it calls the fetchBooks
\* of the render it was created in and awaits it
DeleteSettle ==
    /\ del.pc \in {"ok", "error", "failed"}
    /\ IF del.pc = "ok"
       THEN /\ nextFetch <= MaxFetches
            /\ toast' = [message |-> "Book removed from your shelf.", variant |-> "success"]
            /\ showToast' = TRUE
            /\ timers' = StartTimer(timers)
            /\ bookToDelete' = NoBook
            /\ loading' = TRUE
            /\ fetches' = fetches \cup
                  {NewFetch(nextFetch, "delete", del.search, del.tag, del.sort)}
            /\ nextFetch' = nextFetch + 1
            /\ del' = [pc |-> "books"]
            /\ UNCHANGED deleteLoading
       ELSE /\ toast' = [message |-> "Failed to delete book.", variant |-> "error"]
            /\ showToast' = TRUE
            /\ timers' = StartTimer(timers)
            /\ deleteLoading' = FALSE
            /\ del' = NoDel
            /\ UNCHANGED <<bookToDelete, loading, fetches, nextFetch>>
    /\ UNCHANGED <<apiVars, formVars, books, search, selectedTag, sort, tags, tagFetches,
                   shownBy>>

\* the timer of the toast effect
ToastTimeout(t) ==
    /\ t \in timers
    /\ showToast' = FALSE
    /\ toast' = NoToast
    /\ timers' = timers \ {t, "current"}
    /\ UNCHANGED <<apiVars, formVars, books, loading, search, selectedTag, sort, tags,
                   bookToDelete, deleteLoading, viewNet>>

(***************************************************************************)
(* Specifications                                                          *)
(***************************************************************************)
ApiInit ==
    /\ store = <<>>
    /\ nextId = 1
    /\ resp = NoResp

FormInit ==
    /\ route = "home"
    /\ bookId = 0
    /\ formData = EmptyForm
    /\ formLoading = FALSE
    /\ formNet = NoNet
    /\ alertMsg = ""

\* the view after its first render: both mount effects have made their call
ViewInit ==
    /\ books = <<>>
    /\ loading = TRUE
    /\ search = <<>>
    /\ selectedTag = <<>>
    /\ sort = "asc"
    /\ tags = <<>>
    /\ bookToDelete = NoBook
    /\ deleteLoading = FALSE
    /\ toast = NoToast
    /\ showToast = FALSE
    /\ timers = {}
    /\ fetches = {NewFetch(1, "effect", <<>>, <<>>, "asc")}
    /\ tagFetches = {NewTagFetch("effect")}
    /\ del = NoDel
    /\ nextFetch = 2
    /\ shownBy = 0

InitApi == ApiInit /\ FormInit /\ ViewInit

NextApi ==
    \/ \E q \in Searches, tag \in TagParams, dir \in Sorts, fail \in BOOLEAN :
           ApiGetBooks(q, tag, dir, fail)
    \/ \E body \in Bodies, fail \in BOOLEAN : ApiPost(body, fail)
    \/ \E fail \in BOOLEAN : ApiGetTags(fail)
    \/ \E id \in 1..MaxBooks, fail \in BOOLEAN : ApiDelete(id, fail)

vars == <<apiVars, formVars, viewVars>>

\* the API called directly
SpecApi == InitApi /\ [][NextApi]_vars

InitForm == ApiInit /\ FormInit /\ ViewInit

NextForm ==
    \/ OpenCreate
    \/ \E fd \in FormInputs : FormEdit(fd)
    \/ FormSubmit
    \/ \E fail \in BOOLEAN : ServeFormPost(fail)
    \/ FormNetworkError
    \/ FormResponse
    \/ \E tag \in {Missing, sa}, fail \in BOOLEAN : ApiGetBooks(Missing, tag, "asc", fail)
    \/ \E fail \in BOOLEAN : ApiGetTags(fail)

\* the create form, and a client reading the API
SpecForm == InitForm /\ [][NextForm]_vars

InitForms == ApiInit /\ FormInit /\ ViewInit

NextForms ==
    \/ \E p \in ToastParams : OpenHome(p)
    \/ \E t \in timers : ToastTimeout(t)
    \/ OpenCreate
    \/ \E id \in 1..MaxBooks : OpenEdit(id)
    \/ \E fd \in FormInputs : FormEdit(fd)
    \/ FormSubmit
    \/ \E fail \in BOOLEAN : ServeFormPost(fail)
    \/ \E fail \in BOOLEAN, msg \in PutErrors : ServeFormPut(fail, msg)
    \/ FormNetworkError
    \/ FormResponse

\* the create form, the edit form and the collection view they return to
SpecForms == InitForms /\ [][NextForms]_vars

\* Books the shelf holds when the view is opened
Shelf ==
    << NewBook([title |-> sAb, author |-> sa, tags |-> <<sa, sb, sb>>,
                coverImage |-> Missing], 1),
       NewBook([title |-> sb, author |-> sa, tags |-> <<sB, sa>>,
                coverImage |-> Missing], 2) >>

InitView ==
    /\ store = Shelf
    /\ nextId = 3
    /\ resp = NoResp
    /\ FormInit
    /\ ViewInit

SearchInputs == {<<>>, sa}

NextView ==
    \/ \E v \in SearchInputs : SetSearch(v)
    \/ \E v \in {<<>>, sa, sb, sB} : SetSelectedTag(v)
    \/ \E v \in {"asc", "desc"} : SetSort(v)
    \/ \E f \in fetches, fail \in BOOLEAN : ServeBooks(f, fail)
    \/ \E f \in fetches : BooksNetworkError(f)
    \/ \E f \in fetches : BooksSettle(f)
    \/ \E t \in tagFetches, fail \in BOOLEAN : ServeTags(t, fail)
    \/ \E t \in tagFetches : TagsNetworkError(t)
    \/ \E t \in tagFetches : TagsSettle(t)
    \/ \E b \in Range(books) : SelectDelete(b)
    \/ CancelDelete
    \/ ConfirmDelete
    \/ \E fail \in BOOLEAN : ServeDelete(fail)
    \/ DeleteNetworkError
    \/ DeleteSettle
    \/ \E t \in timers : ToastTimeout(t)

\* the collection view and the handlers it calls
SpecView == InitView /\ [][NextView]_vars

\* a pending timer fires: window.setTimeout(..., 2800) runs its callback
\* unless it is cleared first
TimerFairness == WF_vars(\E t \in timers : ToastTimeout(t))

\* the collection view whose user changes the search text only
NextViewTimed ==
    \/ \E v \in SearchInputs : SetSearch(v)
    \/ \E f \in fetches, fail \in BOOLEAN : ServeBooks(f, fail)
    \/ \E f \in fetches : BooksNetworkError(f)
    \/ \E f \in fetches : BooksSettle(f)
    \/ \E t \in tagFetches, fail \in BOOLEAN : ServeTags(t, fail)
    \/ \E t \in tagFetches : TagsNetworkError(t)
    \/ \E t \in tagFetches : TagsSettle(t)
    \/ \E b \in Range(books) : SelectDelete(b)
    \/ CancelDelete
    \/ ConfirmDelete
    \/ \E fail \in BOOLEAN : ServeDelete(fail)
    \/ DeleteNetworkError
    \/ DeleteSettle
    \/ \E t \in timers : ToastTimeout(t)

\* the collection view whose pending timers fire
SpecViewTimed == InitView /\ [][NextViewTimed]_vars /\ TimerFairness

(***************************************************************************)
(* Properties of the API                                                   *)
(***************************************************************************)
IsBooksOk(r) == r.op = "GET /api/books" /\ r.status = 200
IsTagsOk(r)  == r.op = "GET /api/books/tags" /\ r.status = 200

SwapCase(c) ==
    CASE c = "a" -> "A"
      [] c = "A" -> "a"
      [] c = "b" -> "B"
      [] c = "B" -> "b"
      [] OTHER -> c

\* v spells u up to the letter case of each character
SameLetters(u, v) ==
    /\ Len(u) = Len(v)
    /\ \A k \in 1..Len(u) : v[k] = u[k] \/ v[k] = SwapCase(u[k])

Substrings(t) == {SubSeq(t, i, j) : i \in 1..Len(t), j \in 1..Len(t)}

NoFilter(param) == param = Missing \/ param = <<>>

TitleMatches(b, q) ==
    NoFilter(q) \/ \E u \in Substrings(b.title) : SameLetters(u, q)

TagMatches(b, tag) == NoFilter(tag) \/ tag \in Range(b.tags)

NoDuplicates(q) == \A j, k \in 1..Len(q) : j # k => q[j] # q[k]

\* C1: a successful GET /api/books returns exactly the Books whose title has
\* the search text as a substring in some letter case and whose tag list
\* contains the tag; an empty or absent parameter does not restrict.
C1_SearchAndTagFilter ==
    IsBooksOk(resp) =>
        /\ Range(resp.books) =
             {b \in Range(resp.content) :
                 TitleMatches(b, resp.search) /\ TagMatches(b, resp.tag)}
        /\ NoDuplicates(resp.books)
        /\ (NoFilter(resp.search) /\ NoFilter(resp.tag)
              => Range(resp.books) = Range(resp.content))

C1_Witness ==
    /\ IsBooksOk(resp)
    /\ resp.search = saB
    /\ resp.tag = sa
    /\ Len(resp.books) = 1
    /\ resp.books[1].title = sAb
    /\ Len(resp.content) = 2

\* C2: with no search text, filtering by tag X returns exactly the Books
\* having an element equal to X in their tag list; a tag that contains X or
\* differs from X in letter case does not count.
C2_TagFilterExact ==
    (IsBooksOk(resp) /\ NoFilter(resp.search) /\ ~NoFilter(resp.tag)) =>
        \A b \in Range(resp.content) :
            b \in Range(resp.books) <=> (\E i \in 1..Len(b.tags) : b.tags[i] = resp.tag)

C2_Witness ==
    /\ IsBooksOk(resp)
    /\ NoFilter(resp.search)
    /\ resp.tag = sa
    /\ Len(resp.books) = 1
    /\ \E b \in Range(resp.content) :
          /\ b \notin Range(resp.books)
          /\ \E t \in Range(b.tags) : Contains(t, sa) \/ Lower(t) = sa

Before(q, x, y) == \E j, k \in 1..Len(q) : j < k /\ q[j] = x /\ q[k] = y

TitleOrdered(r) ==
    \A j, k \in 1..Len(r.books) :
        j < k => IF r.sort = "desc"
                 THEN StrLeq(r.books[k].title, r.books[j].title)
                 ELSE StrLeq(r.books[j].title, r.books[k].title)

\* the ordering half of C3: every successful response is ordered by title
TitleOrderedAlways == IsBooksOk(resp) => TitleOrdered(resp)

\* C3: the response is ordered by title in the requested direction, and two
\* responses over the same store content list Books of equal title in the
\* same relative order.
C3_OrderedAndStable ==
    [][(IsBooksOk(resp) /\ IsBooksOk(resp') /\ resp'.content = resp.content) =>
          /\ TitleOrdered(resp')
          /\ \A x, y \in Range(resp.books) \cap Range(resp'.books) :
                x.title = y.title =>
                    (Before(resp.books, x, y) <=> Before(resp'.books, x, y))]_vars

EmptyOrMissing(v) == v = <<>> \/ v = Missing

\* C4: a POST whose title or author is empty or missing is answered 400 and
\* leaves the Book table as it was.
C4_RejectedPostPersistsNothing ==
    [][(resp' # resp /\ resp'.op = "POST /api/books"
          /\ (EmptyOrMissing(resp'.body.title) \/ EmptyOrMissing(resp'.body.author)))
        => (resp'.status = 400 /\ store' = store)]_vars

C4_Witness ==
    /\ resp.op = "POST /api/books"
    /\ resp.status = 400
    /\ resp.body.title # <<>>
    /\ resp.body.author = <<>>
    /\ Len(store) >= 1

StrictlyAscending(q) == \A j, k \in 1..Len(q) : j < k => StrLess(q[j], q[k])

\* C6: GET /api/books/tags lists every tag some Book carries exactly once,
\* lists nothing else, in ascending order, computed from the Books present
\* when it is called.
C6_TagIndex ==
    IsTagsOk(resp) =>
        /\ Range(resp.tags) = UNION {Range(b.tags) : b \in Range(resp.content)}
        /\ NoDuplicates(resp.tags)
        /\ StrictlyAscending(resp.tags)

C6_Witness ==
    /\ IsTagsOk(resp)
    /\ resp.tags = <<sB, sa, sb>>
    /\ Len(FlatMapTags(resp.content)) = 5

DeletedIds == {i \in 1..(nextId - 1) : ~HasId(store, i)}

\* C7: once a Book is deleted no later GET /api/books lists it, and a later
\* GET /api/books/tags lists exactly the tags of the Books that remain.
C7_DeletedBookAndTagsGone ==
    [][(resp' # resp /\ DeletedIds # {}) =>
          /\ IsBooksOk(resp') => \A b \in Range(resp'.books) : b.id \notin DeletedIds
          /\ IsTagsOk(resp') =>
                \A t \in Range(resp'.tags) \cup UNION {Range(b.tags) : b \in Range(store)} :
                    t \in Range(resp'.tags) <=> \E b \in Range(store) : t \in Range(b.tags)]_vars

C7_Witness ==
    /\ IsTagsOk(resp)
    /\ resp.content = store
    /\ DeletedIds # {}
    /\ Len(store) = 1
    /\ resp.tags = <<sab>>

\* C5: every persisted Book has a title and an author that are non-empty
\* after trimming whitespace.
C5_TitleAuthorNonBlank ==
    \A b \in Range(store) : Trim(b.title) # <<>> /\ Trim(b.author) # <<>>

Count(q, x) == Cardinality({i \in 1..Len(q) : q[i] = x})

\* C8: the Book created from the form input "a, b, b" is stored and returned
\* with tags [a, b, b], and the tag index lists a once and b once.
C8_TagsRoundTrip ==
    /\ (formNet.stage = "request" /\ formNet.body.title = sAb)
          => formNet.body.tags = <<sa, sb, sb>>
    /\ \A b \in Range(store) : b.title = sAb => b.tags = <<sa, sb, sb>>
    /\ IsBooksOk(resp) =>
          \A b \in Range(resp.books) : b.title = sAb => b.tags = <<sa, sb, sb>>
    /\ (IsTagsOk(resp) /\ \E b \in Range(resp.content) : b.title = sAb)
          => Count(resp.tags, sa) = 1 /\ Count(resp.tags, sb) = 1

C8_Witness ==
    /\ IsTagsOk(resp)
    /\ resp.content = store
    /\ \E b \in Range(store) : b.title = sAb /\ b.tags = <<sa, sb, sb>>
    /\ formData.tags = <<"a", ",", " ", "b", ",", " ", "b">>
    /\ resp.tags = <<sa, sb>>

(***************************************************************************)
(* Properties of the collection view                                       *)
(***************************************************************************)
FetchIds(F) == {f.id : f \in F}

\* fetchBooks call f settles in this step
Settles(f) == f \in fetches /\ f.stage # "request" /\ f.id \notin FetchIds(fetches')

\* C9: nothing cancels or discards an outdated book-list fetch: when the
\* successful response of a call arrives after a newer call has been made,
\* it still replaces the displayed list.
C9_LateResponseOverwrites ==
    [][\A f \in fetches :
          (Settles(f) /\ BooksOk(f) /\ f.id < nextFetch - 1)
              => (books' = f.reply.books /\ shownBy' = f.id)]_vars

\* the newer call was answered first, the older one last: the list shown is
\* the result for the old search text while the view has the new one
C9_Witness ==
    /\ fetches = {}
    /\ ~loading
    /\ store = Shelf
    /\ search = sa
    /\ nextFetch = 3
    /\ shownBy = 1
    /\ books = Shelf
    /\ books \notin FindMany(store, QueryParam(search), QueryParam(selectedTag), sort)

ErrorToast == [message |-> "Unable to load books.", variant |-> "error"]

StartsDeleteRefetch ==
    \E f \in fetches' : f.by = "delete" /\ f.id \notin FetchIds(fetches)

DeleteFetches(F) == {f \in F : f.by = "delete"}

\* C11: confirmDelete sends the DELETE first; only when it has come back
\* successful does it refetch the book list, and when that fetch has settled
\* the tag index; each successful delete gives exactly one of each.
C11_DeleteThenRefetch ==
    [][/\ StartsDeleteRefetch => (del.pc = "ok" /\ del'.pc = "books")
       /\ (del.pc = "ok" /\ del'.pc # "ok") =>
             /\ del'.pc = "books"
             /\ Cardinality(DeleteFetches(fetches')) = 1
             /\ Cardinality(fetches') = Cardinality(fetches) + 1
             /\ DeleteFetches(tagFetches') = {}
       /\ (DeleteFetches(tagFetches') # {} /\ DeleteFetches(tagFetches) = {}) =>
             /\ del.pc = "books" /\ del'.pc = "tags"
             /\ \E f \in DeleteFetches(fetches) : Settles(f)
             /\ Cardinality(DeleteFetches(tagFetches')) = 1
       /\ (del.pc = "books" /\ del'.pc # "books") =>
             /\ del'.pc = "tags"
             /\ DeleteFetches(tagFetches') # {}
             /\ DeleteFetches(tagFetches) = {}
             /\ DeleteFetches(fetches') = {}
       /\ (del.pc \in {"error", "failed"} /\ del' # del) =>
             (fetches' = fetches /\ tagFetches' = tagFetches)]_vars

C11_Witness ==
    /\ del.pc = "tags"
    /\ Len(store) = 1
    /\ fetches = {}
    /\ shownBy = 2
    /\ books = store
    /\ \E t \in tagFetches : t.by = "delete" /\ t.stage = "response"

\* C12: a DELETE request is sent only by the confirm button of the dialog,
\* for the Book the dialog shows; the store loses a Book only by serving such
\* a request; closing the dialog by Cancel sends nothing and changes no Book.
C12_DeleteOnlyAfterConfirm ==
    [][/\ (del' # del /\ del'.pc = "request") =>
             /\ bookToDelete # NoBook
             /\ bookToDelete' = bookToDelete
             /\ del'.id = bookToDelete.id
       /\ store' # store =>
             /\ del.pc = "request"
             /\ store' = RemoveId(store, del.id)
       /\ (bookToDelete # NoBook /\ bookToDelete' = NoBook /\ del.pc # "ok") =>
             (del' = del /\ store' = store)]_vars

C12_Witness ==
    /\ del.pc = "ok"
    /\ bookToDelete # NoBook
    /\ bookToDelete.id = del.id
    /\ ~HasId(store, del.id)
    /\ Len(store) = 1

\* C19: a DELETE is sent only when no confirmDelete call is in progress;
\* deleteLoading is true exactly while one is, and is false again when the
\* call ends, on success and on failure.
C19_OneDeleteAtATime ==
    [][/\ (del' # del /\ del'.pc = "request") => (del.pc = "idle" /\ ~deleteLoading)
       /\ deleteLoading' <=> (del'.pc # "idle")]_vars

C19_Witness ==
    /\ deleteLoading
    /\ del.pc = "tags"
    /\ bookToDelete # NoBook
    /\ HasId(store, bookToDelete.id)

DeleteFailedToast == [message |-> "Failed to delete book.", variant |-> "error"]

\* C20: when the DELETE fails confirmDelete refetches nothing, leaves the
\* book list and the tag list as they are, leaves the dialog on its Book and
\* raises the error toast; the dialog is closed only by a successful DELETE
\* or by Cancel.
C20_FailedDeleteKeepsDialog ==
    [][/\ (del.pc \in {"error", "failed"} /\ del' # del) =>
             /\ fetches' = fetches /\ tagFetches' = tagFetches
             /\ books' = books /\ tags' = tags
             /\ bookToDelete' = bookToDelete
             /\ toast' = DeleteFailedToast /\ showToast'
             /\ ~deleteLoading'
       /\ (bookToDelete # NoBook /\ bookToDelete' = NoBook) =>
             \/ del.pc = "ok" /\ del'.pc = "books"
             \/ UNCHANGED <<apiVars, formVars, books, loading, search, selectedTag, sort,
                            tags, deleteLoading, toast, showToast, viewNet>>]_vars

C20_Witness ==
    /\ toast = DeleteFailedToast
    /\ bookToDelete # NoBook
    /\ del = NoDel
    /\ ~deleteLoading
    /\ store = Shelf

\* C18: loading is true in every state in which a book-list fetch is in
\* flight.
C18_LoadingWhileInFlight == fetches # {} => loading

\* C18 as amended: loading is true only while the fetchBooks call made last
\* is in flight.
C18_LoadingImpliesLatestInFlight ==
    loading => \E f \in fetches : f.id = nextFetch - 1

\* two calls overlap and none has settled
C18_Witness ==
    /\ loading
    /\ Cardinality(fetches) = 2
    /\ \E f \in fetches : f.id = 1 /\ f.stage = "response"

ApiOps == {"GET /api/books", "POST /api/books", "GET /api/books/tags"}

HasError(r) == "error" \in DOMAIN r /\ r.error # ""

NoResult(r) == DOMAIN r \cap {"books", "book", "tags"} = {}

\* C17: a handler whose store call throws answers 500 with an error string
\* and no result; every answer that is not 2xx carries an error string and
\* no result.
C17_FailuresCarryError ==
    resp.op \in ApiOps =>
        /\ resp.threw => resp.status = 500
        /\ resp.status \in {200, 201, 400, 500}
        /\ resp.status \notin {200, 201} => (HasError(resp) /\ NoResult(resp))

C17_Witness ==
    /\ resp.op = "POST /api/books"
    /\ resp.threw
    /\ resp.status = 500
    /\ Len(store) = 1


(***************************************************************************)
(* Properties of the Book Form                                             *)
(***************************************************************************)
Submits == formNet.stage # "request" /\ formNet'.stage = "request"

\* C13: a submission of the create or edit form whose title or author is
\* empty after trimming sends no request.
C13_BlankFieldsSendNothing ==
    [][Submits => (Trim(formData.title) # <<>> /\ Trim(formData.author) # <<>>)]_vars

\* the segments of s between its commas, by position
CommaCuts(s) == {0, Len(s) + 1} \cup {i \in 1..Len(s) : s[i] = ","}

NextCut(s, i) == CHOOSE j \in CommaCuts(s) : j > i /\ \A k \in CommaCuts(s) : k > i => j <= k

Inked(s, lo, hi) == {i \in lo..hi : s[i] # " "}

Least(S) == CHOOSE i \in S : \A j \in S : i <= j

Most(S) == CHOOSE i \in S : \A j \in S : j <= i

\* start positions of the segments that hold a character other than a space
TagStarts(s) == {c \in CommaCuts(s) \ {Len(s) + 1} : Inked(s, c + 1, NextCut(s, c) - 1) # {}}

TagAt(s, c) ==
    LET ink == Inked(s, c + 1, NextCut(s, c) - 1)
    IN  SubSeq(s, Least(ink), Most(ink))

Rank(S, c) == Cardinality({d \in S : d <= c})

ExpectedTags(s) ==
    LET starts == TagStarts(s)
    IN  [k \in 1..Cardinality(starts) |->
            TagAt(s, CHOOSE c \in starts : Rank(starts, c) = k)]

\* C14: the tags submitted are the comma-separated segments of the tags
\* input, each trimmed, without the empty ones, in the order typed and with
\* duplicates; no tag is empty or starts or ends with a space; an input of
\* separators only gives the empty list.
C14_TagsParsedAtSubmit ==
    [][Submits =>
          LET typed == formData.tags
              sent  == formNet'.body.tags
          IN  /\ sent = ExpectedTags(typed)
              /\ \A i \in 1..Len(sent) :
                    /\ sent[i] # <<>>
                    /\ sent[i][1] # " "
                    /\ sent[i][Len(sent[i])] # " "
                    /\ \A j \in 1..Len(sent[i]) : sent[i][j] # ","
              /\ (\A i \in 1..Len(typed) : typed[i] \in {",", " "}) => sent = <<>>]_vars

C14_Witness ==
    /\ formNet.stage = "request"
    /\ formNet.method = "PUT"
    /\ formData.tags = <<" ", "B", " ", "b", ",", ",", "a", " ", ",">>
    /\ formNet.body.tags = <<<<"B", " ", "b">>, sa>>

SubmitFails ==
    /\ formNet.stage \in {"response", "failed"}
    /\ formNet' = NoNet
    /\ formNet.stage = "response" => ~Ok(formNet.reply.status)

\* C15: when a submission of the create or edit form fails, the form alerts
\* the server's error message, or the fallback if there is none, stays on
\* its page with every field unchanged, and enables the submit control.
C15_FailedSubmitKeepsForm ==
    [][SubmitFails =>
          /\ route' = route
          /\ route' \in {"create", "edit"}
          /\ bookId' = bookId
          /\ formData' = formData
          /\ ~formLoading'
          /\ store' = store
          /\ alertMsg' =
                IF formNet.stage = "response" /\ HasError(formNet.reply)
                THEN formNet.reply.error
                ELSE IF route = "create" THEN "Failed to create book"
                ELSE "Failed to update book"]_vars

C15_Witness ==
    /\ route = "edit"
    /\ alertMsg = "Failed to update book"
    /\ formNet = NoNet
    /\ ~formLoading
    /\ formData.title = sSp
    /\ \E b \in Range(store) : b.id = bookId /\ b.title # sSp

\* C16: when a successful submission of the create or edit form returns to
\* the collection view, the view shows a success notification.
C16_SuccessToastAfterSubmit ==
    [][(route \in {"create", "edit"} /\ route' = "home")
          => (toast'.variant = "success" /\ showToast')]_vars


(***************************************************************************)
(* Failed fetches and notifications of the collection view                 *)
(***************************************************************************)
\* a fetchBooks call is made in this step
StartsFetch == \E g \in fetches' : g.id \notin FetchIds(fetches)

\* C21: a fetchBooks call that fails leaves the displayed list as it was,
\* raises the error toast, sets loading to false and makes no new call; a
\* new call is made only by a change of search, selectedTag or sort, or by a
\* successful delete.
C21_FailedFetchNoRetry ==
    [][/\ \A f \in fetches :
            (Settles(f) /\ ~BooksOk(f)) =>
                /\ books' = books
                /\ shownBy' = shownBy
                /\ toast' = ErrorToast
                /\ showToast'
                /\ ~loading'
                /\ fetches' = fetches \ {f}
                /\ nextFetch' = nextFetch
       /\ StartsFetch =>
            \/ search' # search
            \/ selectedTag' # selectedTag
            \/ sort' # sort
            \/ del.pc = "ok" /\ del'.pc = "books"]_vars

\* the list loaded by the first call is still shown after the second call,
\* made for another sort order, has failed
C21_Witness ==
    /\ toast = ErrorToast
    /\ showToast
    /\ ~loading
    /\ fetches = {}
    /\ sort = "desc"
    /\ nextFetch = 3
    /\ shownBy = 1
    /\ books = Shelf


\* the toast and its timer go together
ToastHasItsTimer ==
    /\ showToast => toast # NoToast
    /\ toast # NoToast => timers = {"current"}
    /\ toast = NoToast => timers = {}

\* C22: a toast that is set is hidden and cleared by its timer unless a
\* newer toast replaces it; the timer of a toast that is replaced is
\* cancelled, so the only timer pending is the one of the toast now set;
\* showToast is true only while a toast is set.
C22_ToastIsTransient ==
    /\ [](ToastHasItsTimer)
    /\ (toast # NoToast) ~> (toast = NoToast /\ ~showToast /\ timers = {})
    /\ [][(toast # NoToast /\ toast' = NoToast) => (~showToast' /\ timers = {"current"})]_vars

\* the error toast of a failed call has replaced the toast of a deletion
C22_Witness ==
    /\ toast = ErrorToast
    /\ showToast
    /\ timers = {"current"}
    /\ del.pc = "tags"
    /\ Len(store) = 1

====
